---- MODULE Spec2Model ----
(***************************************************************************)
(* State-machine model of the three Anchor programs of auton:              *)
(*   auton_program     username registry, creator catalog, payments        *)
(*   sponsor_program   one-shot sponsorship gate                           *)
(*   vault_governance  treasury singleton                                  *)
(* Every instruction is one atomic action.  An instruction that returns    *)
(* Err (from an account constraint, a require!, a failed CPI or a panic)   *)
(* leaves every account as it was; only `result` records the attempt.      *)
(* Rent and transaction fees paid to the host for account allocation are   *)
(* not part of the modelled balances.                                      *)
(***************************************************************************)
EXTENDS Integers, Sequences, FiniteSets

VARIABLES
    usernames,   \* UsernameAccount store, keyed by the username seed
    creators,    \* CreatorAccount store, keyed by the creator seed
    receipts,    \* PaidAccessAccount store, keyed by <<buyer, content_id>>
    payments,    \* history: transfers completed by process_payment
    sponsored,   \* SponsoredUserAccount store, keyed by the user seed
    received,    \* history: lamports credited to each user by sponsor_user
    balances,    \* lamports of every wallet
    vault_state, \* VaultState singleton, at the fixed seed "vault_state"
    overflow_checks, \* build profile: TRUE when u64 overflow panics, FALSE when it wraps
    result       \* outcome of the last instruction: [op, code]

vars == <<usernames, creators, receipts, payments, sponsored, received, balances,
          vault_state, overflow_checks, result>>

(***************************************************************************)
(* u64 arithmetic                                                          *)
(* TLC evaluates 32-bit integers, so a u64 is held as four 16-bit limbs,   *)
(* least significant first: <<l0, l1, l2, l3>> is l0 + 2^16 l1 + 2^32 l2 + *)
(* 2^48 l3.  U64Add, U64Sub and U64Mul return the wrapped result and       *)
(* whether the exact result left the u64 range, like Rust's overflowing_*. *)
(***************************************************************************)
Limb == 65536

U64(n) == <<n % Limb, n \div Limb, 0, 0>>

U64Max == <<Limb - 1, Limb - 1, Limb - 1, Limb - 1>>

U64Less(a, b) ==
    \/ a[4] < b[4]
    \/ a[4] = b[4] /\ a[3] < b[3]
    \/ a[4] = b[4] /\ a[3] = b[3] /\ a[2] < b[2]
    \/ a[4] = b[4] /\ a[3] = b[3] /\ a[2] = b[2] /\ a[1] < b[1]

U64Leq(a, b) == a = b \/ U64Less(a, b)

U64Add(a, b) ==
    LET s1 == a[1] + b[1]
        s2 == a[2] + b[2] + s1 \div Limb
        s3 == a[3] + b[3] + s2 \div Limb
        s4 == a[4] + b[4] + s3 \div Limb
    IN  [overflow |-> s4 >= Limb,
         value |-> <<s1 % Limb, s2 % Limb, s3 % Limb, s4 % Limb>>]

U64Sub(a, b) ==
    LET d1 == a[1] - b[1]
        d2 == a[2] - b[2] - (IF d1 < 0 THEN 1 ELSE 0)
        d3 == a[3] - b[3] - (IF d2 < 0 THEN 1 ELSE 0)
        d4 == a[4] - b[4] - (IF d3 < 0 THEN 1 ELSE 0)
    IN  [overflow |-> d4 < 0,
         value |-> <<(d1 + Limb) % Limb, (d2 + Limb) % Limb,
                     (d3 + Limb) % Limb, (d4 + Limb) % Limb>>]

SaturatingSub(a, b) == IF U64Less(a, b) THEN U64(0) ELSE U64Sub(a, b).value

\* the eight bytes of a u64, least significant first
Bytes(a) ==
    <<a[1] % 256, a[1] \div 256, a[2] % 256, a[2] \div 256,
      a[3] % 256, a[3] \div 256, a[4] % 256, a[4] \div 256>>

RECURSIVE ColumnSum(_, _, _, _)
ColumnSum(x, y, k, i) ==
    IF i > 8 THEN 0
    ELSE (IF k - i + 1 >= 1 /\ k - i + 1 <= 8 THEN x[i] * y[k - i + 1] ELSE 0)
            + ColumnSum(x, y, k, i + 1)

\* the sixteen bytes of the exact product of two u64, least significant first
RECURSIVE ProductBytes(_, _, _, _)
ProductBytes(x, y, k, carry) ==
    IF k > 16 THEN <<>>
    ELSE LET column == carry + ColumnSum(x, y, k, 1)
         IN  <<column % 256>> \o ProductBytes(x, y, k + 1, column \div 256)

U64Mul(a, b) ==
    LET p == ProductBytes(Bytes(a), Bytes(b), 1, 0)
    IN  [overflow |-> \E i \in 9 .. 16 : p[i] # 0,
         value |-> <<p[1] + 256 * p[2], p[3] + 256 * p[4],
                     p[5] + 256 * p[6], p[7] + 256 * p[8]>>]

\* u64 / d for a divisor 0 < d < 2^15
U64Div(a, d) ==
    LET c4 == a[4]
        c3 == (c4 % d) * Limb + a[3]
        c2 == (c3 % d) * Limb + a[2]
        c1 == (c2 % d) * Limb + a[1]
    IN  <<c1 \div d, c2 \div d, c3 \div d, c4 \div d>>

(***************************************************************************)
(* Bounds and input sets                                                   *)
(***************************************************************************)
Addrs == {"a1", "a2", "a3"}

MaxContent == 2

Creators == {"a1", "a2"}

Buyers == {"a2", "a3"}

TitleLen(title) == IF title = "intro" THEN 8 ELSE 240

CidLen(cid) == 64

ContentInputs == { <<"intro", U64(1), "cid64">>, <<"intro", U64(2), "cid64">> }

ContentIds == 1 .. (MaxContent + 1)

NoAccount == [exists |-> FALSE]

Outcome(op, code) == [op |-> op, code |-> code]

(***************************************************************************)
(* Host capability: system_instruction::transfer                           *)
(***************************************************************************)
Transfer(bal, from, to, amount) ==
    IF U64Less(bal[from], amount)
    THEN [ok |-> FALSE, balances |-> bal]
    ELSE LET debited == [bal EXCEPT ![from] = U64Sub(@, amount).value]
         IN  IF U64Add(debited[to], amount).overflow
             THEN [ok |-> FALSE, balances |-> bal]
             ELSE [ok |-> TRUE,
                   balances |-> [debited EXCEPT ![to] = U64Add(@, amount).value]]

(***************************************************************************)
(* auton_program: register_username                                        *)
(* A username is a sequence of characters.  Chars holds one example of     *)
(* each class that String::len (UTF-8 bytes) and char::is_alphanumeric     *)
(* (Unicode Alphabetic or Numeric) tell apart:                             *)
(*   "a"  U+0061 letter      "7"  U+0037 digit    "_"  U+005F underscore   *)
(*   "-"  U+002D hyphen      "e_acute" U+00E9     "euro" U+20AC            *)
(***************************************************************************)
Chars == {"a", "7", "_", "-", "e_acute", "euro"}

Utf8Len(c) == IF c = "e_acute" THEN 2 ELSE IF c = "euro" THEN 3 ELSE 1

IsAlphanumeric(c) == c \in {"a", "7", "e_acute"}

MinUsernameLen == 3

MaxUsernameLen == 32

MaxSeedLen == 32

RECURSIVE ByteLen(_)
ByteLen(username) ==
    IF username = <<>> THEN 0
    ELSE Utf8Len(Head(username)) + ByteLen(Tail(username))

Pad(n) == [i \in 1 .. n |-> "a"]

NameCharCounts ==
    {MinUsernameLen - 1, MinUsernameLen, MaxUsernameLen, MaxUsernameLen + 1}

Usernames ==
    {<<>>} \cup { Append(Pad(n - 1), c) : n \in NameCharCounts, c \in Chars }

Claimants == {"a1", "a2"}

\* register_username whose record is init_if_needed: a later claim overwrites
RegisterUsernameOverwrite(creator, username) ==
    IF ByteLen(username) > MaxSeedLen
    THEN [code |-> "MaxSeedLengthExceeded", usernames |-> usernames]
    ELSE IF ~(ByteLen(username) >= MinUsernameLen /\ ByteLen(username) <= MaxUsernameLen)
    THEN [code |-> "InvalidUsername", usernames |-> usernames]
    ELSE IF ~(\A i \in 1 .. Len(username) :
                 IsAlphanumeric(username[i]) \/ username[i] = "_")
    THEN [code |-> "InvalidUsername", usernames |-> usernames]
    ELSE [code |-> "Ok",
          usernames |-> [usernames EXCEPT ![username] =
                            [exists |-> TRUE,
                             authority |-> creator,
                             username |-> username]]]

RegisterUsernameResult(creator, username) ==
    IF ByteLen(username) > MaxSeedLen
    THEN [code |-> "MaxSeedLengthExceeded", usernames |-> usernames]
    ELSE IF usernames[username] # NoAccount
    THEN [code |-> "AccountInUse", usernames |-> usernames]
    ELSE IF ~(ByteLen(username) >= MinUsernameLen /\ ByteLen(username) <= MaxUsernameLen)
    THEN [code |-> "InvalidUsername", usernames |-> usernames]
    ELSE IF ~(\A i \in 1 .. Len(username) :
                 IsAlphanumeric(username[i]) \/ username[i] = "_")
    THEN [code |-> "InvalidUsername", usernames |-> usernames]
    ELSE [code |-> "Ok",
          usernames |-> [usernames EXCEPT ![username] =
                            [exists |-> TRUE,
                             authority |-> creator,
                             username |-> username]]]

RegisterUsername(creator, username) ==
    LET r == RegisterUsernameResult(creator, username)
    IN  /\ usernames' = r.usernames
        /\ result' = Outcome("register_username", r.code)
        /\ UNCHANGED <<creators, receipts, payments, sponsored, received, balances,
                       overflow_checks, vault_state>>

(***************************************************************************)
(* auton_program: initialize_creator                                       *)
(***************************************************************************)
InitializeCreatorIfNeeded(creator) ==
    [code |-> "Ok",
     creators |-> [creators EXCEPT ![creator] =
                      [exists |-> TRUE,
                       creator_wallet |-> creator,
                       content |-> <<>>,
                       last_content_id |-> 0]]]

InitializeCreatorResult(creator) ==
    IF creators[creator] # NoAccount
    THEN [code |-> "AccountInUse", creators |-> creators]
    ELSE [code |-> "Ok",
          creators |-> [creators EXCEPT ![creator] =
                           [exists |-> TRUE,
                            creator_wallet |-> creator,
                            content |-> <<>>,
                            last_content_id |-> 0]]]

InitializeCreator(creator) ==
    LET r == InitializeCreatorResult(creator)
    IN  /\ creators' = r.creators
        /\ result' = Outcome("initialize_creator", r.code)
        /\ UNCHANGED <<usernames, receipts, payments, sponsored, received, balances,
                       overflow_checks, vault_state>>

(***************************************************************************)
(* auton_program: add_content                                              *)
(***************************************************************************)
ReallocSpace(n) == 8 + 32 + 8 + 4 + (n + 1) * (8 + 4 + 128 + 8 + 4 + 100)

RECURSIVE ContentBytes(_)
ContentBytes(content) ==
    IF content = <<>> THEN 0
    ELSE 8 + (4 + TitleLen(Head(content).title)) + 8
           + (4 + CidLen(Head(content).encrypted_cid))
           + ContentBytes(Tail(content))

SerializedSize(account) == 8 + 32 + 8 + 4 + ContentBytes(account.content)

AddContentStaleCounter(creator, target, title, price, encrypted_cid) ==
    LET creator_account == creators[target]
        new_id == creator_account.last_content_id + 1
        new_content == [id |-> new_id, title |-> title, price |-> price,
                        encrypted_cid |-> encrypted_cid]
        updated == [creator_account EXCEPT !.content = Append(@, new_content)]
    IN  IF creator_account = NoAccount
        THEN [code |-> "AccountNotInitialized", creators |-> creators]
        ELSE IF target # creator
        THEN [code |-> "ConstraintSeeds", creators |-> creators]
        ELSE [code |-> "Ok", creators |-> [creators EXCEPT ![target] = updated]]

AddContentResult(creator, target, title, price, encrypted_cid) ==
    LET creator_account == creators[target]
        space == ReallocSpace(Len(creator_account.content))
        new_id == creator_account.last_content_id + 1
        new_content == [id |-> new_id, title |-> title, price |-> price,
                        encrypted_cid |-> encrypted_cid]
        updated == [creator_account EXCEPT
                       !.last_content_id = new_id,
                       !.content = Append(@, new_content)]
    IN  IF creator_account = NoAccount
        THEN [code |-> "AccountNotInitialized", creators |-> creators]
        ELSE IF target # creator
        THEN [code |-> "ConstraintSeeds", creators |-> creators]
        ELSE IF creator_account.creator_wallet # creator
        THEN [code |-> "Unauthorized", creators |-> creators]
        ELSE IF SerializedSize(updated) > space
        THEN [code |-> "AccountDidNotSerialize", creators |-> creators]
        ELSE [code |-> "Ok", creators |-> [creators EXCEPT ![target] = updated]]

AddContent(creator, target, title, price, encrypted_cid) ==
    LET r == AddContentResult(creator, target, title, price, encrypted_cid)
    IN  /\ creators[target] # NoAccount => Len(creators[target].content) < MaxContent
        /\ creators' = r.creators
        /\ result' = Outcome("add_content", r.code)
        /\ UNCHANGED <<usernames, receipts, payments, sponsored, received, balances,
                       overflow_checks, vault_state>>

(***************************************************************************)
(* auton_program: process_payment                                          *)
(***************************************************************************)
NotFound == [found |-> FALSE]

RECURSIVE Find(_, _)
Find(content, content_id) ==
    IF content = <<>> THEN NotFound
    ELSE IF Head(content).id = content_id
    THEN [found |-> TRUE, item |-> Head(content)]
    ELSE Find(Tail(content), content_id)

PaymentOutcome(code, r, b, p) ==
    [code |-> code, receipts |-> r, balances |-> b, payments |-> p]

PaymentRecord(buyer, creator_key, content_id, amount) ==
    [buyer |-> buyer, creator |-> creator_key, content_id |-> content_id,
     amount |-> amount]

\* process_payment whose receipt account is init_if_needed: no collision
ProcessPaymentNoCollision(buyer, creator_key, creator_wallet, content_id) ==
    LET creator_account == creators[creator_key]
        Fail(code) == PaymentOutcome(code, receipts, balances, payments)
        created == receipts \cup {[buyer |-> buyer, content_id |-> content_id]}
    IN  IF creator_account = NoAccount
        THEN Fail("AccountNotInitialized")
        ELSE IF creator_wallet # creator_account.creator_wallet
        THEN Fail("ConstraintAddress")
        ELSE LET content_item == Find(creator_account.content, content_id)
             IN  IF ~content_item.found
                 THEN Fail("ContentNotFound")
                 ELSE LET amount_to_pay == content_item.item.price
                          t == Transfer(balances, buyer, creator_wallet, amount_to_pay)
                      IN  IF ~t.ok
                          THEN Fail("InsufficientFunds")
                          ELSE PaymentOutcome("Ok", created, t.balances,
                                   payments \cup {PaymentRecord(buyer, creator_key,
                                                       content_id, amount_to_pay)})

\* process_payment whose failure keeps the receipt created before the handler
ProcessPaymentNoRollback(buyer, creator_key, creator_wallet, content_id) ==
    LET creator_account == creators[creator_key]
        Fail(code) == PaymentOutcome(code, receipts, balances, payments)
        created == receipts \cup {[buyer |-> buyer, content_id |-> content_id]}
    IN  IF creator_account = NoAccount
        THEN Fail("AccountNotInitialized")
        ELSE IF \E r \in receipts : r.buyer = buyer /\ r.content_id = content_id
        THEN Fail("AccountInUse")
        ELSE IF creator_wallet # creator_account.creator_wallet
        THEN Fail("ConstraintAddress")
        ELSE LET content_item == Find(creator_account.content, content_id)
             IN  IF ~content_item.found
                 THEN PaymentOutcome("ContentNotFound", created, balances, payments)
                 ELSE LET amount_to_pay == content_item.item.price
                          t == Transfer(balances, buyer, creator_wallet, amount_to_pay)
                      IN  IF ~t.ok
                          THEN PaymentOutcome("InsufficientFunds", created, balances,
                                              payments)
                          ELSE PaymentOutcome("Ok", created, t.balances,
                                   payments \cup {PaymentRecord(buyer, creator_key,
                                                       content_id, amount_to_pay)})

\* process_payment that pays whatever wallet the caller passes
ProcessPaymentAnyWallet(buyer, creator_key, creator_wallet, content_id) ==
    LET creator_account == creators[creator_key]
        Fail(code) == PaymentOutcome(code, receipts, balances, payments)
        created == receipts \cup {[buyer |-> buyer, content_id |-> content_id]}
    IN  IF creator_account = NoAccount
        THEN Fail("AccountNotInitialized")
        ELSE IF \E r \in receipts : r.buyer = buyer /\ r.content_id = content_id
        THEN Fail("AccountInUse")
        ELSE LET content_item == Find(creator_account.content, content_id)
             IN  IF ~content_item.found
                 THEN Fail("ContentNotFound")
                 ELSE LET amount_to_pay == content_item.item.price
                          t == Transfer(balances, buyer, creator_wallet, amount_to_pay)
                      IN  IF ~t.ok
                          THEN Fail("InsufficientFunds")
                          ELSE PaymentOutcome("Ok", created, t.balances,
                                   payments \cup {PaymentRecord(buyer, creator_key,
                                                       content_id, amount_to_pay)})

ProcessPaymentResult(buyer, creator_key, creator_wallet, content_id) ==
    LET creator_account == creators[creator_key]
        Fail(code) == PaymentOutcome(code, receipts, balances, payments)
        created == receipts \cup {[buyer |-> buyer, content_id |-> content_id]}
    IN  IF creator_account = NoAccount
        THEN Fail("AccountNotInitialized")
        ELSE IF \E r \in receipts : r.buyer = buyer /\ r.content_id = content_id
        THEN Fail("AccountInUse")
        ELSE IF creator_wallet # creator_account.creator_wallet
        THEN Fail("ConstraintAddress")
        ELSE LET content_item == Find(creator_account.content, content_id)
             IN  IF ~content_item.found
                 THEN Fail("ContentNotFound")
                 ELSE LET amount_to_pay == content_item.item.price
                          t == Transfer(balances, buyer, creator_wallet, amount_to_pay)
                      IN  IF ~t.ok
                          THEN Fail("InsufficientFunds")
                          ELSE PaymentOutcome("Ok", created, t.balances,
                                   payments \cup {PaymentRecord(buyer, creator_key,
                                                       content_id, amount_to_pay)})

ProcessPayment(buyer, creator_key, creator_wallet, content_id) ==
    LET r == ProcessPaymentResult(buyer, creator_key, creator_wallet, content_id)
    IN  /\ receipts' = r.receipts
        /\ balances' = r.balances
        /\ payments' = r.payments
        /\ result' = Outcome("process_payment", r.code)
        /\ UNCHANGED <<usernames, creators, sponsored, received, overflow_checks, vault_state>>

(***************************************************************************)
(* sponsor_program                                                         *)
(* Lamports are u64 and sponsor_user moves them with plain -= and +=.  A   *)
(* build with overflow-checks panics on overflow, a build without wraps.   *)
(***************************************************************************)
SponsorCap == 10000000

Amounts == {U64(1), U64(SponsorCap), U64(SponsorCap + 1)}

Times == {1700000001, 1700000002}

SponsorOutcome(code, s, b, r) ==
    [code |-> code, sponsored |-> s, balances |-> b, received |-> r]

\* sponsor_user whose cap comparison is strict
SponsorUserStrictCap(vault, user, amount, now) ==
    LET sponsored_user == sponsored[user]
        Fail(code) == SponsorOutcome(code, sponsored, balances, received)
        debited == [balances EXCEPT ![vault] = U64Sub(@, amount).value]
        credited == [debited EXCEPT ![user] = U64Add(@, amount).value]
    IN  IF sponsored_user = NoAccount
        THEN Fail("AccountNotInitialized")
        ELSE IF sponsored_user.is_sponsored
        THEN Fail("AlreadySponsored")
        ELSE IF ~U64Less(amount, U64(SponsorCap))
        THEN Fail("AmountTooLarge")
        ELSE IF overflow_checks /\ U64Sub(balances[vault], amount).overflow
        THEN Fail("Panic")
        ELSE IF overflow_checks /\ U64Add(debited[user], amount).overflow
        THEN Fail("Panic")
        ELSE SponsorOutcome("Ok",
                 [sponsored EXCEPT ![user] =
                     [@ EXCEPT !.is_sponsored = TRUE,
                               !.sponsored_at = now,
                               !.amount = amount]],
                 credited,
                 [received EXCEPT ![user] = U64Add(@, amount).value])

\* sponsor_user without the is_sponsored constraint and assertion
SponsorUserRepeatable(vault, user, amount, now) ==
    LET sponsored_user == sponsored[user]
        Fail(code) == SponsorOutcome(code, sponsored, balances, received)
        debited == [balances EXCEPT ![vault] = U64Sub(@, amount).value]
        credited == [debited EXCEPT ![user] = U64Add(@, amount).value]
    IN  IF sponsored_user = NoAccount
        THEN Fail("AccountNotInitialized")
        ELSE IF ~U64Leq(amount, U64(SponsorCap))
        THEN Fail("AmountTooLarge")
        ELSE IF overflow_checks /\ U64Sub(balances[vault], amount).overflow
        THEN Fail("Panic")
        ELSE IF overflow_checks /\ U64Add(debited[user], amount).overflow
        THEN Fail("Panic")
        ELSE SponsorOutcome("Ok",
                 [sponsored EXCEPT ![user] =
                     [@ EXCEPT !.is_sponsored = TRUE,
                               !.sponsored_at = now,
                               !.amount = amount]],
                 credited,
                 [received EXCEPT ![user] = U64Add(@, amount).value])

SponsorUserResult(vault, user, amount, now) ==
    LET sponsored_user == sponsored[user]
        Fail(code) == SponsorOutcome(code, sponsored, balances, received)
        debited == [balances EXCEPT ![vault] = U64Sub(@, amount).value]
        credited == [debited EXCEPT ![user] = U64Add(@, amount).value]
    IN  IF sponsored_user = NoAccount
        THEN Fail("AccountNotInitialized")
        ELSE IF sponsored_user.is_sponsored
        THEN Fail("AlreadySponsored")
        ELSE IF ~U64Leq(amount, U64(SponsorCap))
        THEN Fail("AmountTooLarge")
        ELSE IF overflow_checks /\ U64Sub(balances[vault], amount).overflow
        THEN Fail("Panic")
        ELSE IF overflow_checks /\ U64Add(debited[user], amount).overflow
        THEN Fail("Panic")
        ELSE SponsorOutcome("Ok",
                 [sponsored EXCEPT ![user] =
                     [@ EXCEPT !.is_sponsored = TRUE,
                               !.sponsored_at = now,
                               !.amount = amount]],
                 credited,
                 [received EXCEPT ![user] = U64Add(@, amount).value])

SponsorUser(vault, user, amount, now) ==
    LET r == SponsorUserResult(vault, user, amount, now)
    IN  /\ sponsored' = r.sponsored
        /\ balances' = r.balances
        /\ received' = r.received
        /\ result' = Outcome("sponsor_user", r.code)
        /\ UNCHANGED <<usernames, creators, receipts, payments, overflow_checks, vault_state>>

InitializeSponsoredUserResult(user) ==
    IF sponsored[user] # NoAccount
    THEN [code |-> "AccountInUse", sponsored |-> sponsored]
    ELSE [code |-> "Ok",
          sponsored |-> [sponsored EXCEPT ![user] =
                            [exists |-> TRUE,
                             user |-> user,
                             is_sponsored |-> FALSE,
                             sponsored_at |-> 0,
                             amount |-> U64(0)]]]

InitializeSponsoredUser(user) ==
    LET r == InitializeSponsoredUserResult(user)
    IN  /\ sponsored' = r.sponsored
        /\ result' = Outcome("initialize_sponsored_user", r.code)
        /\ UNCHANGED <<usernames, creators, receipts, payments, received, balances,
                       overflow_checks, vault_state>>

(***************************************************************************)
(* vault_governance                                                        *)
(* collect_fees, withdraw and record_sponsorship use plain *, -= and += on *)
(* u64, so each panics or wraps with the build profile.  The Pubkey        *)
(* argument of withdraw only feeds msg! and is left out.                   *)
(***************************************************************************)
MaxFeeBps == 10000

BasisPoints == 10000

MaxSponsorshipAmount == 10000000

ReserveFloor == U64Mul(U64(5), U64(1000000000)).value

VaultOutcome(code, v, b) == [code |-> code, vault_state |-> v, balances |-> b]

VaultFail(code) == VaultOutcome(code, vault_state, balances)

InitializeVaultIfNeeded(admin, vault_wallet, fee_percentage, sponsorship_amount) ==
    VaultOutcome("Ok",
        [exists |-> TRUE,
         vault_wallet |-> vault_wallet,
         admin |-> admin,
         fee_percentage |-> fee_percentage,
         sponsorship_amount |-> sponsorship_amount,
         total_collected |-> U64(0),
         total_sponsored |-> U64(0),
         is_initialized |-> TRUE],
        balances)

InitializeVaultResult(admin, vault_wallet, fee_percentage, sponsorship_amount) ==
    IF vault_state # NoAccount
    THEN VaultFail("AccountInUse")
    ELSE VaultOutcome("Ok",
             [exists |-> TRUE,
              vault_wallet |-> vault_wallet,
              admin |-> admin,
              fee_percentage |-> fee_percentage,
              sponsorship_amount |-> sponsorship_amount,
              total_collected |-> U64(0),
              total_sponsored |-> U64(0),
              is_initialized |-> TRUE],
             balances)

UpdateAdminResult(admin, new_admin) ==
    IF vault_state = NoAccount
    THEN VaultFail("AccountNotInitialized")
    ELSE IF vault_state.admin # admin
    THEN VaultFail("Unauthorized")
    ELSE VaultOutcome("Ok", [vault_state EXCEPT !.admin = new_admin], balances)

UpdateFeePercentageStrict(admin, new_fee_percentage) ==
    IF vault_state = NoAccount
    THEN VaultFail("AccountNotInitialized")
    ELSE IF vault_state.admin # admin
    THEN VaultFail("Unauthorized")
    ELSE IF ~U64Less(new_fee_percentage, U64(MaxFeeBps))
    THEN VaultFail("InvalidFee")
    ELSE VaultOutcome("Ok",
             [vault_state EXCEPT !.fee_percentage = new_fee_percentage], balances)

UpdateFeePercentageResult(admin, new_fee_percentage) ==
    IF vault_state = NoAccount
    THEN VaultFail("AccountNotInitialized")
    ELSE IF vault_state.admin # admin
    THEN VaultFail("Unauthorized")
    ELSE IF ~U64Leq(new_fee_percentage, U64(MaxFeeBps))
    THEN VaultFail("InvalidFee")
    ELSE VaultOutcome("Ok",
             [vault_state EXCEPT !.fee_percentage = new_fee_percentage], balances)

UpdateSponsorshipAmountResult(admin, new_amount) ==
    IF vault_state = NoAccount
    THEN VaultFail("AccountNotInitialized")
    ELSE IF vault_state.admin # admin
    THEN VaultFail("Unauthorized")
    ELSE IF ~U64Leq(new_amount, U64(MaxSponsorshipAmount))
    THEN VaultFail("AmountTooLarge")
    ELSE VaultOutcome("Ok",
             [vault_state EXCEPT !.sponsorship_amount = new_amount], balances)

FeeAmount(amount, fee_percentage) ==
    U64Div(U64Mul(amount, fee_percentage).value, BasisPoints)

CollectFeesResult(payer, vault_wallet, amount) ==
    IF vault_state = NoAccount
    THEN VaultFail("AccountNotInitialized")
    ELSE LET product == U64Mul(amount, vault_state.fee_percentage)
             fee_amount == FeeAmount(amount, vault_state.fee_percentage)
             debit == U64Sub(balances[payer], fee_amount)
             debited == [balances EXCEPT ![payer] = debit.value]
             credit == U64Add(debited[vault_wallet], fee_amount)
             credited == [debited EXCEPT ![vault_wallet] = credit.value]
             total == U64Add(vault_state.total_collected, fee_amount)
         IN  IF overflow_checks
                /\ (product.overflow \/ debit.overflow \/ credit.overflow
                        \/ total.overflow)
             THEN VaultFail("Panic")
             ELSE VaultOutcome("Ok",
                      [vault_state EXCEPT !.total_collected = total.value],
                      credited)

WithdrawAnySigner(admin, vault_wallet, recipient, amount) ==
    IF vault_state = NoAccount
    THEN VaultFail("AccountNotInitialized")
    ELSE LET vault_balance == balances[vault_wallet]
             debit == U64Sub(balances[vault_wallet], amount)
             debited == [balances EXCEPT ![vault_wallet] = debit.value]
             credit == U64Add(debited[recipient], amount)
             credited == [debited EXCEPT ![recipient] = credit.value]
         IN  IF ~U64Leq(ReserveFloor, SaturatingSub(vault_balance, amount))
             THEN VaultFail("InsufficientBalance")
             ELSE IF overflow_checks /\ (debit.overflow \/ credit.overflow)
             THEN VaultFail("Panic")
             ELSE VaultOutcome("Ok", vault_state, credited)

WithdrawResult(admin, vault_wallet, recipient, amount) ==
    IF vault_state = NoAccount
    THEN VaultFail("AccountNotInitialized")
    ELSE IF vault_state.admin # admin
    THEN VaultFail("Unauthorized")
    ELSE LET vault_balance == balances[vault_wallet]
             debit == U64Sub(balances[vault_wallet], amount)
             debited == [balances EXCEPT ![vault_wallet] = debit.value]
             credit == U64Add(debited[recipient], amount)
             credited == [debited EXCEPT ![recipient] = credit.value]
         IN  IF ~U64Leq(ReserveFloor, SaturatingSub(vault_balance, amount))
             THEN VaultFail("InsufficientBalance")
             ELSE IF overflow_checks /\ (debit.overflow \/ credit.overflow)
             THEN VaultFail("Panic")
             ELSE VaultOutcome("Ok", vault_state, credited)

RecordSponsorshipResult(amount) ==
    IF vault_state = NoAccount
    THEN VaultFail("AccountNotInitialized")
    ELSE LET total == U64Add(vault_state.total_sponsored, amount)
         IN  IF overflow_checks /\ total.overflow
             THEN VaultFail("Panic")
             ELSE VaultOutcome("Ok",
                      [vault_state EXCEPT !.total_sponsored = total.value],
                      balances)

VaultStep(op, r) ==
    /\ vault_state' = r.vault_state
    /\ balances' = r.balances
    /\ result' = Outcome(op, r.code)
    /\ UNCHANGED <<usernames, creators, receipts, payments, sponsored, received,
                   overflow_checks>>

InitializeVault(admin, vault_wallet, fee_percentage, sponsorship_amount) ==
    VaultStep("initialize_vault",
              InitializeVaultResult(admin, vault_wallet, fee_percentage,
                                    sponsorship_amount))

UpdateAdmin(admin, new_admin) ==
    VaultStep("update_admin", UpdateAdminResult(admin, new_admin))

UpdateFeePercentage(admin, new_fee_percentage) ==
    VaultStep("update_fee_percentage",
              UpdateFeePercentageResult(admin, new_fee_percentage))

UpdateSponsorshipAmount(admin, new_amount) ==
    VaultStep("update_sponsorship_amount",
              UpdateSponsorshipAmountResult(admin, new_amount))

MaxCollected == 50000

CollectFees(payer, vault_wallet, amount) ==
    /\ vault_state # NoAccount => U64Less(vault_state.total_collected, U64(MaxCollected))
    /\ VaultStep("collect_fees", CollectFeesResult(payer, vault_wallet, amount))

Withdraw(admin, vault_wallet, recipient, amount) ==
    VaultStep("withdraw", WithdrawResult(admin, vault_wallet, recipient, amount))

MaxSponsored == 10000001

RecordSponsorship(amount) ==
    /\ vault_state # NoAccount => U64Less(vault_state.total_sponsored, U64(MaxSponsored))
    /\ VaultStep("record_sponsorship", RecordSponsorshipResult(amount))

(***************************************************************************)
(* Specifications                                                          *)
(***************************************************************************)
CatalogBalances ==
    [a \in Addrs |-> IF a = "a1" THEN U64(0) ELSE IF a = "a2" THEN U64(2) ELSE U64(1)]

InitAccounts ==
    /\ usernames = [u \in Usernames |-> NoAccount]
    /\ creators = [a \in Addrs |-> NoAccount]
    /\ receipts = {}
    /\ payments = {}
    /\ sponsored = [a \in Addrs |-> NoAccount]
    /\ received = [a \in Addrs |-> U64(0)]
    /\ vault_state = NoAccount
    /\ result = Outcome("none", "Ok")

\* auton_program does no unchecked arithmetic on balances: one profile suffices
InitCatalog ==
    /\ InitAccounts
    /\ balances = CatalogBalances
    /\ overflow_checks = TRUE

NextCatalog ==
    \/ \E creator \in Creators : InitializeCreator(creator)
    \/ \E creator \in Addrs, target \in Addrs, c \in ContentInputs :
          AddContent(creator, target, c[1], c[2], c[3])
    \/ \E buyer \in Buyers, creator_key \in Addrs, creator_wallet \in Addrs,
          content_id \in ContentIds :
          ProcessPayment(buyer, creator_key, creator_wallet, content_id)

SpecCatalog == InitCatalog /\ [][NextCatalog]_vars

\* add_content with titles of 8 and of 240 bytes
StorageInputs ==
    { <<"intro", U64(1), "cid64">>, <<"essay", U64(1), "cid64">> }

NextStorage ==
    \/ \E creator \in Addrs : InitializeCreator(creator)
    \/ \E creator \in Addrs, target \in Addrs, c \in StorageInputs :
          AddContent(creator, target, c[1], c[2], c[3])

SpecStorage == InitCatalog /\ [][NextStorage]_vars

NextRegistry ==
    \E creator \in Claimants, username \in Usernames :
        RegisterUsername(creator, username)

SpecRegistry == InitCatalog /\ [][NextRegistry]_vars

SponsorBalances ==
    [a \in Addrs |-> IF a = "a1" THEN U64(25000000) ELSE IF a = "a2" THEN U64(2) ELSE U64(0)]

InitSponsor ==
    /\ InitAccounts
    /\ balances = SponsorBalances
    /\ overflow_checks \in BOOLEAN

NextSponsor ==
    \/ \E user \in Addrs : InitializeSponsoredUser(user)
    \/ \E vault \in Addrs, user \in Addrs, amount \in Amounts, now \in Times :
          SponsorUser(vault, user, amount, now)

SpecSponsor == InitSponsor /\ [][NextSponsor]_vars

Pow63 == <<0, 0, 0, 32768>>

FeeInputs == {U64(250), U64(MaxFeeBps), U64(MaxFeeBps + 1)}

SponsorshipInputs == {U64(MaxSponsorshipAmount), U64(MaxSponsorshipAmount + 1)}

Admins == {"a1", "a2"}

VaultWallets == {"a3"}

Payers == {"a2"}

Payees == {"a3"}

Sources == {"a1", "a3"}

Recipients == {"a2"}

CollectAmounts == {U64(1000000), Pow63}

WithdrawAmounts(vault_wallet) ==
    LET excess == SaturatingSub(balances[vault_wallet], ReserveFloor)
    IN  {excess, U64Add(excess, U64(1)).value, U64Max}

RecordAmounts == {U64(10000000), Pow63}

VaultBalances ==
    [a \in Addrs |-> IF a = "a3" THEN U64Add(ReserveFloor, U64(1)).value
                     ELSE IF a = "a1" THEN U64Add(ReserveFloor, U64(2)).value
                     ELSE U64(2000000)]

InitVault ==
    /\ InitAccounts
    /\ balances = VaultBalances
    /\ overflow_checks \in BOOLEAN

NextVault ==
    \/ \E admin \in Admins, vault_wallet \in VaultWallets, fee \in FeeInputs,
          amount \in SponsorshipInputs :
          InitializeVault(admin, vault_wallet, fee, amount)
    \/ \E admin \in Admins, new_admin \in Admins : UpdateAdmin(admin, new_admin)
    \/ \E admin \in Admins, fee \in FeeInputs : UpdateFeePercentage(admin, fee)
    \/ \E admin \in Admins, amount \in SponsorshipInputs :
          UpdateSponsorshipAmount(admin, amount)
    \/ \E payer \in Payers, vault_wallet \in Payees, amount \in CollectAmounts :
          CollectFees(payer, vault_wallet, amount)
    \/ \E admin \in Admins, vault_wallet \in Sources, recipient \in Recipients :
          \E amount \in WithdrawAmounts(vault_wallet) :
          Withdraw(admin, vault_wallet, recipient, amount)
    \/ \E amount \in RecordAmounts : RecordSponsorship(amount)

SpecVault == InitVault /\ [][NextVault]_vars

InitGate ==
    /\ InitAccounts
    /\ balances = SponsorBalances
    /\ overflow_checks \in BOOLEAN

NextGate ==
    \/ InitializeVault("a1", "a1", U64(250), U64(MaxSponsorshipAmount))
    \/ \E user \in Addrs : InitializeSponsoredUser(user)
    \/ \E vault \in Addrs, user \in Addrs, amount \in Amounts, now \in Times :
          SponsorUser(vault, user, amount, now)
    \/ RecordSponsorship(U64(MaxSponsorshipAmount))

SpecGate == InitGate /\ [][NextGate]_vars

(***************************************************************************)
(* Properties of the catalog and payment ledger (SpecCatalog)              *)
(***************************************************************************)
HasReceipt(rs, buyer, content_id) ==
    \E r \in rs : r.buyer = buyer /\ r.content_id = content_id

HasItem(creator_key, content_id) ==
    /\ creators[creator_key] # NoAccount
    /\ Find(creators[creator_key].content, content_id).found

PriceOf(creator_key, content_id) ==
    Find(creators[creator_key].content, content_id).item.price

\* C1: a receipt for (b, k) exists only if b paid, through process_payment,
\* the price of item k to every creator whose catalog holds an item k that
\* the receipt gives access to.
C1_ReceiptProvesPayment ==
    \A r \in receipts : \A c \in Addrs :
        HasItem(c, r.content_id) =>
            \E p \in payments :
                /\ p.buyer = r.buyer
                /\ p.creator = c
                /\ p.content_id = r.content_id
                /\ p.amount = PriceOf(c, r.content_id)

\* C2: the first process_payment for (buyer, content_id) debits the buyer by
\* the price, credits the creator by the price and creates the one receipt
\* of the pair; once that receipt exists every further process_payment for
\* the pair fails and changes no balance and no record, so no pair is ever
\* charged twice.
C2_PayOnce ==
    /\ \A p, q \in payments :
          (p.buyer = q.buyer /\ p.content_id = q.content_id) => p = q
    /\ \A p \in payments : HasReceipt(receipts, p.buyer, p.content_id)
    /\ \A b \in Addrs, c \in Addrs, w \in Addrs, k \in ContentIds :
          LET r == ProcessPaymentResult(b, c, w, k)
          IN  /\ HasReceipt(receipts, b, k) =>
                    /\ r.code # "Ok"
                    /\ r.receipts = receipts
                    /\ r.balances = balances
                    /\ r.payments = payments
              /\ r.code = "Ok" =>
                    /\ ~HasReceipt(receipts, b, k)
                    /\ r.receipts = receipts \cup {[buyer |-> b, content_id |-> k]}
                    /\ LET price == PriceOf(c, k)
                           debited == [balances EXCEPT ![b] = U64Sub(@, price).value]
                       IN  /\ U64Leq(price, balances[b])
                           /\ ~U64Add(debited[w], price).overflow
                           /\ r.balances =
                                  [debited EXCEPT ![w] = U64Add(@, price).value]

C2_Witness ==
    /\ result = Outcome("process_payment", "AccountInUse")
    /\ payments # {}

\* C3: a process_payment that fails with ContentNotFound (the id is not in
\* the scanned catalog) or because the buyer holds less than the price
\* changes no balance and creates no receipt for (buyer, content_id).
C3_FailedPaymentHasNoEffect ==
    \A b \in Addrs, c \in Addrs, w \in Addrs, k \in ContentIds :
        LET r == ProcessPaymentResult(b, c, w, k)
            reachesHandler ==
                /\ creators[c] # NoAccount
                /\ ~HasReceipt(receipts, b, k)
                /\ w = creators[c].creator_wallet
        IN  /\ (reachesHandler /\ ~HasItem(c, k)) => r.code = "ContentNotFound"
            /\ (reachesHandler /\ HasItem(c, k) /\ U64Less(balances[b], PriceOf(c, k)))
                   => r.code = "InsufficientFunds"
            /\ r.code \in {"ContentNotFound", "InsufficientFunds"} =>
                   /\ r.balances = balances
                   /\ r.receipts = receipts
                   /\ ~HasReceipt(r.receipts, b, k)

C3_Witness ==
    /\ result = Outcome("process_payment", "InsufficientFunds")
    /\ \E c \in Addrs : HasItem(c, 1)

\* C4: a successful process_payment names the wallet stored in the scanned
\* CreatorAccount, and no balance other than that wallet's increases; a call
\* that names any other recipient fails.
C4_PaysStoredWallet ==
    \A b \in Addrs, c \in Addrs, w \in Addrs, k \in ContentIds :
        LET r == ProcessPaymentResult(b, c, w, k)
        IN  /\ r.code = "Ok" =>
                  /\ w = creators[c].creator_wallet
                  /\ r.balances[w] =
                        U64Add(balances[w],
                               IF b = w THEN U64(0) ELSE PriceOf(c, k)).value
                  /\ \A a \in Addrs \ {creators[c].creator_wallet} :
                        U64Leq(r.balances[a], balances[a])
            /\ (creators[c] # NoAccount /\ w # creators[c].creator_wallet)
                  => (r.code # "Ok" /\ r.balances = balances)

C4_Witness ==
    /\ result = Outcome("process_payment", "Ok")
    /\ \E p \in payments :
          U64Less(CatalogBalances[creators[p.creator].creator_wallet],
                  balances[creators[p.creator].creator_wallet])

\* C7: every CreatorAccount holds items with ids 1, 2, ..., n in insertion
\* order and last_content_id = n, and a step only appends: the items already
\* present keep their id, title, price, locator and position.
IdsInSequence ==
    \A c \in Addrs :
        creators[c] # NoAccount =>
            /\ creators[c].last_content_id = Len(creators[c].content)
            /\ \A i \in 1 .. Len(creators[c].content) : creators[c].content[i].id = i

AppendOnly ==
    \A c \in Addrs :
        creators[c] # NoAccount =>
            /\ creators'[c] # NoAccount
            /\ Len(creators'[c].content) >= Len(creators[c].content)
            /\ SubSeq(creators'[c].content, 1, Len(creators[c].content))
                   = creators[c].content

C7_IdsAppendOnly == []IdsInSequence /\ [][AppendOnly]_vars

C7_Witness ==
    \E c \in Addrs :
        /\ creators[c] # NoAccount
        /\ Len(creators[c].content) = MaxContent
        /\ creators[c].content[1].price # creators[c].content[2].price

\* C8: add_content signed by anyone but the account's creator_wallet fails
\* and leaves the account unchanged, and initialize_creator for a creator
\* whose account exists fails and resets nothing.
C8_OnlyOwnerMutates ==
    /\ \A s \in Addrs, t \in Addrs, c \in ContentInputs :
          (creators[t] # NoAccount /\ s # creators[t].creator_wallet) =>
              LET r == AddContentResult(s, t, c[1], c[2], c[3])
              IN  r.code # "Ok" /\ r.creators = creators
    /\ \A s \in Addrs :
          creators[s] # NoAccount =>
              LET r == InitializeCreatorResult(s)
              IN  r.code # "Ok" /\ r.creators = creators

C8_Witness ==
    /\ result = Outcome("initialize_creator", "AccountInUse")
    /\ \E c \in Addrs : creators[c] # NoAccount /\ creators[c].content # <<>>

(***************************************************************************)
(* Properties of the username registry (SpecRegistry)                      *)
(***************************************************************************)
AsciiWordChar(c) == c \in {"a", "7", "_"}

\* C5: register_username fails with InvalidUsername and creates no record
\* for every username shorter than 3 or longer than 32 characters or holding
\* a character outside [A-Za-z0-9_], and succeeds for every unclaimed
\* username of 3 to 32 characters drawn from [A-Za-z0-9_].
C5_UsernameValidation ==
    /\ \A u \in Usernames :
          usernames[u] # NoAccount =>
              /\ Len(u) >= 3 /\ Len(u) <= 32
              /\ \A i \in 1 .. Len(u) : AsciiWordChar(u[i])
    /\ \A creator \in Claimants, u \in Usernames :
          LET r == RegisterUsernameResult(creator, u)
              wellFormed == /\ Len(u) >= 3 /\ Len(u) <= 32
                            /\ \A i \in 1 .. Len(u) : AsciiWordChar(u[i])
          IN  /\ ~wellFormed =>
                    (r.code = "InvalidUsername" /\ r.usernames = usernames)
              /\ (wellFormed /\ usernames[u] = NoAccount) => r.code = "Ok"

\* C6: once a username is claimed every further register_username for it,
\* by any caller, fails and changes nothing, and its record keeps the first
\* claimant as authority in every later state.
ClaimedOnce ==
    \A u \in Usernames :
        usernames[u] # NoAccount =>
            \A creator \in Addrs :
                LET r == RegisterUsernameResult(creator, u)
                IN  r.code # "Ok" /\ r.usernames = usernames

RecordImmutable ==
    \A u \in Usernames :
        usernames[u] # NoAccount => usernames'[u] = usernames[u]

C6_FirstClaimWins == []ClaimedOnce /\ [][RecordImmutable]_vars

C6_Witness ==
    /\ result = Outcome("register_username", "AccountInUse")
    /\ \E u \in Usernames, v \in Usernames :
          /\ usernames[u] # NoAccount /\ usernames[v] # NoAccount
          /\ usernames[u].authority # usernames[v].authority

(***************************************************************************)
(* Properties of the sponsorship gate (SpecSponsor)                        *)
(***************************************************************************)
\* C9: on an initialized record that is not yet sponsored, sponsor_user
\* succeeds for every amount up to 10_000_000 when the vault holds at least
\* the amount, and fails with AmountTooLarge for every amount from
\* 10_000_001; on a sponsored record it fails with AlreadySponsored for
\* every amount and changes no balance and no record.
C9_SponsorCapAndOneShot ==
    \A vault \in Addrs, user \in Addrs, amount \in Amounts, now \in Times :
        LET r == SponsorUserResult(vault, user, amount, now)
        IN  sponsored[user] # NoAccount =>
                /\ (~sponsored[user].is_sponsored /\ U64Leq(amount, U64(10000000))
                        /\ U64Leq(amount, balances[vault])) => r.code = "Ok"
                /\ (~sponsored[user].is_sponsored /\ U64Leq(U64(10000001), amount))
                        => r.code = "AmountTooLarge"
                /\ sponsored[user].is_sponsored =>
                        /\ r.code = "AlreadySponsored"
                        /\ r.balances = balances
                        /\ r.sponsored = sponsored

C9_Witness ==
    /\ result = Outcome("sponsor_user", "AlreadySponsored")
    /\ \E user \in Addrs :
          /\ sponsored[user] # NoAccount
          /\ sponsored[user].is_sponsored
          /\ sponsored[user].amount = U64(10000000)

\* C10: a record with is_sponsored = TRUE keeps is_sponsored, amount and
\* sponsored_at in every later state, and the total a user receives through
\* sponsor_user never exceeds 10_000_000.
SponsoredAtMostCap ==
    \A user \in Addrs :
        /\ U64Leq(received[user], U64(10000000))
        /\ (sponsored[user] # NoAccount /\ sponsored[user].is_sponsored)
              => received[user] = sponsored[user].amount
        /\ (sponsored[user] = NoAccount \/ ~sponsored[user].is_sponsored)
              => received[user] = U64(0)

SponsoredForever ==
    \A user \in Addrs :
        (sponsored[user] # NoAccount /\ sponsored[user].is_sponsored)
            => sponsored'[user] = sponsored[user]

C10_SponsoredOnce == []SponsoredAtMostCap /\ [][SponsoredForever]_vars

C10_Witness ==
    /\ result.op = "initialize_sponsored_user"
    /\ \E user \in Addrs :
          /\ sponsored[user] # NoAccount
          /\ sponsored[user].is_sponsored
          /\ sponsored[user].sponsored_at # 0
          /\ received[user] = U64(10000000)

(***************************************************************************)
(* Properties of the treasury (SpecVault)                                  *)
(***************************************************************************)
FeeProbes ==
    {U64(0), U64(250), U64(MaxFeeBps - 1), U64(MaxFeeBps), U64(MaxFeeBps + 1),
     <<0, 1, 0, 0>>, U64Max}

AmountProbes ==
    {U64(0), U64(1), U64(MaxSponsorshipAmount), U64(MaxSponsorshipAmount + 1),
     ReserveFloor, Pow63, U64Max}

\* C12: whenever the VaultState exists, its fee_percentage (feeBasisPoints)
\* is at most 10000, whatever calls led to the state.
C12_FeeInRange ==
    vault_state # NoAccount => U64Leq(vault_state.fee_percentage, U64(MaxFeeBps))

\* C13: signed by the current admin, update_fee_percentage(f) succeeds and
\* stores f for every f <= 10000 (10000 included) and changes nothing else;
\* for every f >= 10001 it fails with InvalidFee and changes nothing at all.
C13_FeeUpdateBoundary ==
    vault_state # NoAccount =>
        \A f \in FeeProbes :
            LET r == UpdateFeePercentageResult(vault_state.admin, f)
            IN  /\ r.balances = balances
                /\ IF U64Leq(f, U64(MaxFeeBps))
                   THEN /\ r.code = "Ok"
                        /\ r.vault_state = [vault_state EXCEPT !.fee_percentage = f]
                   ELSE /\ r.code = "InvalidFee"
                        /\ r.vault_state = vault_state

C13_Witness ==
    /\ result = Outcome("update_fee_percentage", "Ok")
    /\ vault_state.fee_percentage = U64(MaxFeeBps)

Rejected(r) ==
    /\ r.code = "Unauthorized"
    /\ r.vault_state = vault_state
    /\ r.balances = balances

\* C16: update_admin, update_fee_percentage, update_sponsorship_amount and
\* withdraw fail with Unauthorized and change nothing when the signer is not
\* the stored admin; update_admin by the admin stores the new admin, so in
\* every later state the same rule holds with the new admin and the
\* previous one is rejected.
C16_AdminOnly ==
    vault_state # NoAccount =>
        /\ \A signer \in Addrs \ {vault_state.admin} :
              /\ \A a \in Addrs : Rejected(UpdateAdminResult(signer, a))
              /\ \A f \in FeeProbes : Rejected(UpdateFeePercentageResult(signer, f))
              /\ \A n \in AmountProbes :
                    Rejected(UpdateSponsorshipAmountResult(signer, n))
              /\ \A w \in Addrs, t \in Addrs, n \in AmountProbes :
                    Rejected(WithdrawResult(signer, w, t, n))
        /\ \A a \in Addrs :
              LET r == UpdateAdminResult(vault_state.admin, a)
              IN  /\ r.code = "Ok"
                  /\ r.vault_state = [vault_state EXCEPT !.admin = a]
                  /\ r.balances = balances
        /\ \A f \in FeeProbes :
              UpdateFeePercentageResult(vault_state.admin, f).code # "Unauthorized"
        /\ \A n \in AmountProbes :
              UpdateSponsorshipAmountResult(vault_state.admin, n).code
                  # "Unauthorized"
        /\ \A w \in Addrs, t \in Addrs, n \in AmountProbes :
              WithdrawResult(vault_state.admin, w, t, n).code # "Unauthorized"

C16_Witness ==
    /\ result = Outcome("withdraw", "Unauthorized")
    /\ vault_state.admin = "a2"

InitializeVaultOnce ==
    \A admin \in Addrs, w \in Addrs, f \in FeeProbes, n \in AmountProbes :
        LET r == InitializeVaultResult(admin, w, f, n)
        IN  /\ r.balances = balances
            /\ IF vault_state = NoAccount
               THEN /\ r.code = "Ok"
                    /\ r.vault_state =
                           [exists |-> TRUE, vault_wallet |-> w, admin |-> admin,
                            fee_percentage |-> f, sponsorship_amount |-> n,
                            total_collected |-> U64(0),
                            total_sponsored |-> U64(0),
                            is_initialized |-> TRUE]
               ELSE /\ r.code # "Ok"
                    /\ r.vault_state = vault_state

VaultStays ==
    /\ vault_state # NoAccount => vault_state' # NoAccount
    /\ result' = Outcome("initialize_vault", "Ok") => vault_state = NoAccount

\* C17: initialize_vault succeeds only while no VaultState exists, and then
\* creates it with the signer as admin, the given wallet and parameters,
\* both counters zero and is_initialized set; once the VaultState exists it
\* never disappears and every initialize_vault fails and changes nothing.
C17_InitializeOnce == []InitializeVaultOnce /\ [][VaultStays]_vars

C17_Witness ==
    /\ result = Outcome("initialize_vault", "AccountInUse")
    /\ vault_state.admin = "a2"

RECURSIVE LongDivision(_, _, _, _)
LongDivision(p, i, remainder, d) ==
    IF i = 0 THEN <<>>
    ELSE LET current == remainder * 256 + p[i]
         IN  LongDivision(p, i - 1, current % d, d) \o <<current \div d>>

Floor(amount, fee_percentage) ==
    LET q == LongDivision(ProductBytes(Bytes(amount), Bytes(fee_percentage), 1, 0),
                          16, 0, BasisPoints)
    IN  [fits |-> \A i \in 9 .. 16 : q[i] = 0,
         value |-> <<q[1] + 256 * q[2], q[3] + 256 * q[4],
                     q[5] + 256 * q[6], q[7] + 256 * q[8]>>]

CollectProbes == {U64(0), U64(1), U64(1000000), Pow63, U64Max}

Moved(before, after, from, to, amount) ==
    IF from = to THEN after = before
    ELSE /\ U64Leq(amount, before[from])
         /\ ~U64Add(before[to], amount).overflow
         /\ after = [before EXCEPT ![from] = U64Sub(@, amount).value,
                                   ![to] = U64Add(@, amount).value]

\* C14: with fee_percentage in 0..10000, every successful collect_fees(amount)
\* moves exactly floor(amount * fee_percentage / 10000), computed without
\* wrapping, from the payer to the vault wallet and adds exactly that to
\* total_collected; the fee is at most amount; 250 basis points of 1000000
\* are 25000.
C14_ExactFee ==
    /\ FeeAmount(U64(1000000), U64(250)) = U64(25000)
    /\ (vault_state # NoAccount /\ U64Leq(vault_state.fee_percentage, U64(MaxFeeBps)))
        => \A payer \in Addrs, amount \in CollectProbes :
              LET r == CollectFeesResult(payer, vault_state.vault_wallet, amount)
                  fee == Floor(amount, vault_state.fee_percentage)
                  total == U64Add(vault_state.total_collected, fee.value)
              IN  r.code = "Ok" =>
                      /\ fee.fits
                      /\ U64Leq(fee.value, amount)
                      /\ Moved(balances, r.balances, payer,
                               vault_state.vault_wallet, fee.value)
                      /\ ~total.overflow
                      /\ r.vault_state =
                             [vault_state EXCEPT !.total_collected = total.value]

\* C15: signed by the admin, withdraw(amount) succeeds exactly when the
\* balance of the vault wallet recorded in VaultState minus amount is at
\* least 5000000000, and otherwise fails with InsufficientBalance and changes
\* no balance; a successful withdraw debits the vault wallet by amount,
\* credits the recipient by amount and leaves the vault wallet at or above
\* the floor.
C15_ReserveFloor ==
    vault_state # NoAccount =>
        \A vault_wallet \in Addrs, recipient \in Addrs :
            \A amount \in WithdrawAmounts(vault_state.vault_wallet)
                              \cup {U64(0), U64(1), U64(2)} :
                LET r == WithdrawResult(vault_state.admin, vault_wallet,
                                        recipient, amount)
                    wallet == vault_state.vault_wallet
                    enough ==
                        /\ U64Leq(amount, balances[wallet])
                        /\ U64Leq(ReserveFloor, U64Sub(balances[wallet], amount).value)
                IN  IF enough
                    THEN /\ r.code = "Ok"
                         /\ Moved(balances, r.balances, wallet, recipient, amount)
                         /\ U64Leq(ReserveFloor, r.balances[wallet])
                    ELSE /\ r.code = "InsufficientBalance"
                         /\ r.balances = balances

AdminOperations ==
    {"initialize_vault", "update_admin", "update_fee_percentage",
     "update_sponsorship_amount"}

Parameters(v) == <<v.vault_wallet, v.admin, v.fee_percentage, v.sponsorship_amount>>

FrameOfResults ==
    vault_state # NoAccount =>
        /\ \A payer \in Addrs, w \in Addrs, n \in CollectProbes :
              LET r == CollectFeesResult(payer, w, n)
              IN  /\ r.vault_state = [vault_state EXCEPT
                         !.total_collected = r.vault_state.total_collected]
                  /\ U64Leq(vault_state.total_collected,
                            r.vault_state.total_collected)
        /\ \A n \in AmountProbes :
              LET r == RecordSponsorshipResult(n)
              IN  /\ r.vault_state = [vault_state EXCEPT
                         !.total_sponsored = r.vault_state.total_sponsored]
                  /\ U64Leq(vault_state.total_sponsored,
                            r.vault_state.total_sponsored)
        /\ \A signer \in Addrs, w \in Addrs, t \in Addrs, n \in AmountProbes :
              WithdrawResult(signer, w, t, n).vault_state = vault_state
        /\ \A signer \in Addrs \ {vault_state.admin} :
              /\ \A a \in Addrs :
                    UpdateAdminResult(signer, a).vault_state = vault_state
              /\ \A f \in FeeProbes :
                    UpdateFeePercentageResult(signer, f).vault_state = vault_state
              /\ \A n \in AmountProbes :
                    UpdateSponsorshipAmountResult(signer, n).vault_state
                        = vault_state

FrameOfSteps ==
    vault_state # NoAccount =>
        /\ vault_state' # NoAccount
        /\ Parameters(vault_state') # Parameters(vault_state)
              => result'.op \in AdminOperations /\ result'.code = "Ok"
        /\ vault_state' # vault_state
              => result'.op \in AdminOperations
                                   \cup {"collect_fees", "record_sponsorship"}
        /\ U64Leq(vault_state.total_collected, vault_state'.total_collected)
        /\ U64Leq(vault_state.total_sponsored, vault_state'.total_sponsored)

\* C20: the vault wallet, admin, fee_percentage and sponsorship_amount of the
\* VaultState change only in an operation signed by the current admin;
\* collect_fees changes at most total_collected, record_sponsorship at most
\* total_sponsored, withdraw nothing, operations of the other programs
\* nothing; total_collected and total_sponsored never decrease.
C20_VaultFrame == []FrameOfResults /\ [][FrameOfSteps]_vars

(***************************************************************************)
(* Properties of the sponsorship gate with the treasury (SpecGate)         *)
(***************************************************************************)
\* C11: sponsor_user succeeds only when the signing account that is debited
\* is the vault wallet recorded in VaultState; signed by any other account
\* it fails and moves no funds.
C11_VaultAuthority ==
    vault_state # NoAccount =>
        \A vault \in Addrs, user \in Addrs, amount \in Amounts, now \in Times :
            LET r == SponsorUserResult(vault, user, amount, now)
            IN  vault # vault_state.vault_wallet =>
                    /\ r.code # "Ok"
                    /\ r.balances = balances

RECURSIVE SumSponsored(_)
SumSponsored(users) ==
    IF users = {} THEN U64(0)
    ELSE LET user == CHOOSE u \in users : TRUE
             amount == IF sponsored[user] # NoAccount /\ sponsored[user].is_sponsored
                       THEN sponsored[user].amount
                       ELSE U64(0)
         IN  U64Add(amount, SumSponsored(users \ {user})).value

\* C18: whenever the VaultState exists, total_sponsored equals the sum of the
\* amounts of all sponsored-user records with is_sponsored set.
C18_SponsoredAccounted ==
    vault_state # NoAccount => vault_state.total_sponsored = SumSponsored(Addrs)

(***************************************************************************)
(* Properties of the CreatorAccount storage budget (SpecStorage)           *)
(***************************************************************************)
\* C19: whenever add_content accepts a title and locator (the account
\* exists, is the signer's and the signer is its stored wallet), the space
\* allocated for the account, header plus (items + 1) * 252 bytes, is at
\* least the serialized size of the account after the append.
C19_BudgetCoversItems ==
    \A creator \in Addrs, c \in StorageInputs :
        LET creator_account == creators[creator]
            new_content == [id |-> creator_account.last_content_id + 1,
                            title |-> c[1], price |-> c[2],
                            encrypted_cid |-> c[3]]
            updated == [creator_account EXCEPT !.content = Append(@, new_content)]
        IN  (creator_account # NoAccount
                /\ creator_account.creator_wallet = creator)
            => /\ ReallocSpace(Len(creator_account.content)) >= SerializedSize(updated)
               /\ AddContentResult(creator, creator, c[1], c[2], c[3]).code = "Ok"

(***************************************************************************)
(* Properties of the value-moving operations (SpecGate)                    *)
(***************************************************************************)
RECURSIVE WideSum(_, _)
WideSum(bal, accounts) ==
    IF accounts = {} THEN [low |-> U64(0), high |-> 0]
    ELSE LET account == CHOOSE a \in accounts : TRUE
             rest == WideSum(bal, accounts \ {account})
             sum == U64Add(rest.low, bal[account])
         IN  [low |-> sum.value,
              high |-> rest.high + (IF sum.overflow THEN 1 ELSE 0)]

Conserves(code, after, from, to, amount) ==
    /\ U64Less(balances[from], amount) => code # "Ok"
    /\ code # "Ok" => after = balances
    /\ code = "Ok" =>
          /\ Moved(balances, after, from, to, amount)
          /\ WideSum(after, Addrs) = WideSum(balances, Addrs)

\* C21: process_payment, sponsor_user, collect_fees and withdraw conserve the
\* sum of all balances: a successful call debits the source by exactly what
\* it credits the destination (nothing changes when they are the same
\* account), no balance wraps, and a call whose source holds less than the
\* amount fails; a failed call changes no balance.
C21_Conservation ==
    /\ \A buyer \in Addrs, creator_key \in Addrs, creator_wallet \in Addrs,
          content_id \in ContentIds :
          LET r == ProcessPaymentResult(buyer, creator_key, creator_wallet,
                                        content_id)
          IN  IF HasItem(creator_key, content_id)
              THEN Conserves(r.code, r.balances, buyer, creator_wallet,
                             PriceOf(creator_key, content_id))
              ELSE r.code # "Ok" /\ r.balances = balances
    /\ \A vault \in Addrs, user \in Addrs, amount \in Amounts, now \in Times :
          LET r == SponsorUserResult(vault, user, amount, now)
          IN  Conserves(r.code, r.balances, vault, user, amount)
    /\ vault_state # NoAccount =>
          /\ \A payer \in Addrs, vault_wallet \in Addrs, amount \in CollectProbes :
                LET r == CollectFeesResult(payer, vault_wallet, amount)
                IN  Conserves(r.code, r.balances, payer, vault_wallet,
                              FeeAmount(amount, vault_state.fee_percentage))
          /\ \A vault_wallet \in Addrs, recipient \in Addrs :
                \A amount \in WithdrawAmounts(vault_wallet) \cup {U64(0), U64(1)} :
                    LET r == WithdrawResult(vault_state.admin, vault_wallet,
                                            recipient, amount)
                    IN  Conserves(r.code, r.balances, vault_wallet, recipient,
                                  amount)

====
